---- MODULE Spec2Model ----
(***************************************************************************)
(* Model of the generator data_reconstruction of the notebook              *)
(* "MNIST visualization" and of a consumer that calls next() on it.        *)
(*                                                                         *)
(* numpy arrays are records [rows, cols, e] (shape plus entries); entries  *)
(* are exact integers, so floating-point rounding is not modelled.         *)
(* np.empty returns uninitialised memory: its entries are a                *)
(* nondeterministic choice.  Arrays handed to the consumer are references  *)
(* ("L": the accumulator object itself, "tmp": the fresh array built by    *)
(* the last yield), so that in-place mutation by L+= is visible through    *)
(* them.                                                                   *)
(***************************************************************************)
EXTENDS Integers, Sequences, FiniteSets, TLC

\* ---- bounds of the model ----
\* columns of data / rows of principal_components range over 1..MaxC,
\* by_n over -MaxNeg..MaxBy
MaxC == 3
MaxBy == 3
MaxNeg == 1
MaxPulls == MaxC + 2
\* the pairs (n, N): rows of data, columns of principal_components
OutShapes == {<<1, 1>>, <<2, 1>>, <<1, 2>>}
\* entries of the input matrices, and of the memory np.empty hands out
Entries == 0..1

VARIABLES data, principal_components, by_n, stage, L, L0, m, tmp, out, pulls, err, dots, written

vars == <<data, principal_components, by_n, stage, L, L0, m, tmp, out, pulls, err, dots, written>>

\* ---- arrays ----
Array(r, k, vals) == { [rows |-> r, cols |-> k, e |-> f] : f \in [1..r -> [1..k -> vals]] }

NoArray == [rows |-> 0, cols |-> 0, e |-> <<>>]

Max2(a, b) == IF a > b THEN a ELSE b

Min2(a, b) == IF a < b THEN a ELSE b

\* Python slice index normalisation: a negative index counts from the end,
\* and the result is clamped to 0..len.
Norm(i, len) == IF i < 0 THEN Max2(i + len, 0) ELSE Min2(i, len)

SliceLo(a, b, len) == Norm(a, len)

SliceHi(a, b, len) == Max2(Norm(b, len), Norm(a, len))

\* A[:, a:b]
ColSlice(A, a, b) ==
  LET lo == SliceLo(a, b, A.cols)
      hi == SliceHi(a, b, A.cols)
  IN [rows |-> A.rows, cols |-> hi - lo,
      e |-> [i \in 1..A.rows |-> [k \in 1..(hi - lo) |-> A.e[i][lo + k]]]]

\* B[a:b, :]
RowSlice(B, a, b) ==
  LET lo == SliceLo(a, b, B.rows)
      hi == SliceHi(a, b, B.rows)
  IN [rows |-> hi - lo, cols |-> B.cols,
      e |-> [k \in 1..(hi - lo) |-> [j \in 1..B.cols |-> B.e[lo + k][j]]]]

RECURSIVE DotEntry(_, _, _, _, _)
DotEntry(A, B, i, j, k) ==
  IF k = 0 THEN 0 ELSE A.e[i][k] * B.e[k][j] + DotEntry(A, B, i, j, k - 1)

\* np.dot raises ValueError unless the inner dimensions agree
DotOk(A, B) == A.cols = B.rows

Dot(A, B) ==
  [rows |-> A.rows, cols |-> B.cols,
   e |-> [i \in 1..A.rows |-> [j \in 1..B.cols |-> DotEntry(A, B, i, j, A.cols)]]]

\* A + B (a new array)
MatAdd(A, B) ==
  [rows |-> A.rows, cols |-> A.cols,
   e |-> [i \in 1..A.rows |-> [j \in 1..A.cols |-> A.e[i][j] + B.e[i][j]]]]

Zeros(r, k) == [rows |-> r, cols |-> k, e |-> [i \in 1..r |-> [j \in 1..k |-> 0]]]

\* ---- the pieces of data_reconstruction ----
\* M=c//by_n raises ZeroDivisionError when by_n is 0; M itself is never used
FloorDivOk(by) == by # 0

\* assert C==c
ShapeOkNoAssert(C, c) == TRUE

ShapeOk(C, c) == C = c

\* L=np.empty((n,N)): any contents
Empty(r, k) == Array(r, k, Entries)

\* while m+by_n<c
LoopCondInclusive(mm, by, c) == mm + by <= c

LoopCond(mm, by, c) == mm + by < c

\* L+=...  (in place: the object L keeps its identity)
IAddOverwrite(A, P) == P

IAdd(A, P) == MatAdd(A, P)

Fail(e) ==
  /\ stage' = "failed"
  /\ err' = e
  /\ UNCHANGED <<L, m, tmp, out, dots>>

\* Variant of the loop: when a further full block remains, it is multiplied and
\* folded in before the yield (production runs one block ahead of the consumer).
RunToYieldAhead(Lc, mc) ==
  LET c == data.cols IN
  IF LoopCond(mc, by_n, c)
  THEN LET D1 == Dot(ColSlice(data, mc, mc + by_n),
                     RowSlice(principal_components, mc, mc + by_n))
           D2 == Dot(ColSlice(data, mc + by_n, mc + 2 * by_n),
                     RowSlice(principal_components, mc + by_n, mc + 2 * by_n))
           ahead == by_n >= 1 /\ LoopCond(mc + by_n, by_n, c)
       IN /\ L' = (IF ahead THEN IAdd(IAdd(Lc, D1), D2) ELSE IAdd(Lc, D1))
          /\ m' = (IF ahead THEN mc + 2 * by_n ELSE mc + by_n)
          /\ dots' = (IF ahead THEN dots + 2 ELSE dots + 1)
          /\ out' = Append(out, [ref |-> "L", val |-> L', idx |-> mc])
          /\ stage' = "loop"
          /\ UNCHANGED <<tmp, err>>
  ELSE /\ tmp' = MatAdd(Lc, Dot(ColSlice(data, mc, c),
                                RowSlice(principal_components, mc, c)))
       /\ out' = Append(out, [ref |-> "tmp", val |-> tmp', idx |-> mc])
       /\ stage' = "final"
       /\ L' = Lc
       /\ m' = mc
       /\ dots' = dots + 1
       /\ UNCHANGED err

\* Variant of the last step: the tail is folded into L with L+= and m is moved
\* to c before the yield.
RunToYieldFoldTail(Lc, mc) ==
  LET c == data.cols IN
  IF LoopCond(mc, by_n, c)
  THEN /\ L' = IAdd(Lc, Dot(ColSlice(data, mc, mc + by_n),
                            RowSlice(principal_components, mc, mc + by_n)))
       /\ m' = mc + by_n
       /\ dots' = dots + 1
       /\ out' = Append(out, [ref |-> "L", val |-> L', idx |-> mc])
       /\ stage' = "loop"
       /\ UNCHANGED <<tmp, err>>
  ELSE /\ L' = IAdd(Lc, Dot(ColSlice(data, mc, c),
                            RowSlice(principal_components, mc, c)))
       /\ out' = Append(out, [ref |-> "L", val |-> L', idx |-> mc])
       /\ stage' = "final"
       /\ m' = c
       /\ dots' = dots + 1
       /\ UNCHANGED <<tmp, err>>

\* From the head of the while loop, with accumulator Lc and offset mc, to the
\* next yield.
RunToYield(Lc, mc) ==
  LET c == data.cols IN
  IF LoopCond(mc, by_n, c)
  THEN LET iteration == mc
           A == ColSlice(data, mc, mc + by_n)
           B == RowSlice(principal_components, mc, mc + by_n)
       IN IF ~DotOk(A, B)
          THEN /\ Fail("ValueError")
          ELSE /\ L' = IAdd(Lc, Dot(A, B))
               /\ m' = mc + by_n
               /\ out' = Append(out, [ref |-> "L", val |-> L', idx |-> iteration])
               /\ stage' = "loop"
               /\ dots' = dots + 1
               /\ UNCHANGED <<tmp, err>>
  ELSE LET A == ColSlice(data, mc, c)
           B == RowSlice(principal_components, mc, c)
       IN IF ~DotOk(A, B)
          THEN /\ Fail("ValueError")
          ELSE /\ tmp' = MatAdd(Lc, Dot(A, B))
               /\ out' = Append(out, [ref |-> "tmp", val |-> tmp', idx |-> mc])
               /\ stage' = "final"
               /\ L' = Lc
               /\ m' = mc
               /\ dots' = dots + 1
               /\ UNCHANGED err

\* what a reference handed to the consumer holds now
Deref(r) == IF r = "L" THEN L ELSE tmp

\* ---- state machine ----
Init ==
  /\ \E sh \in OutShapes, c \in 1..MaxC, C \in 1..MaxC :
       /\ data \in Array(sh[1], c, Entries)
       /\ principal_components \in Array(C, sh[2], Entries)
  /\ by_n \in (0 - MaxNeg)..MaxBy
  /\ stage = "unstarted"
  /\ L = NoArray
  /\ L0 = NoArray
  /\ m = 0
  /\ tmp = NoArray
  /\ out = <<>>
  /\ pulls = 0
  /\ err = "none"
  /\ dots = 0
  /\ written = FALSE

\* data_reconstruction(data, principal_components, by_n): calling a generator
\* function only builds the generator object; none of its body runs.
Invoke ==
  /\ stage = "unstarted"
  /\ stage' = "created"
  /\ UNCHANGED <<data, principal_components, by_n, L, L0, m, tmp, out, pulls, err, dots, written>>

\* first next(): the body runs from its first line to the first yield
NextStart ==
  /\ stage = "created"
  /\ pulls < MaxPulls
  /\ pulls' = pulls + 1
  /\ UNCHANGED <<data, principal_components, by_n, written>>
  /\ IF ~FloorDivOk(by_n)
     THEN Fail("ZeroDivisionError") /\ UNCHANGED L0
     ELSE IF ~ShapeOk(principal_components.rows, data.cols)
     THEN Fail("AssertionError") /\ UNCHANGED L0
     ELSE \E g \in Empty(data.rows, principal_components.cols) :
            /\ L0' = g
            /\ RunToYield(g, 0)

\* next() on a generator suspended at the yield inside the loop
NextResume ==
  /\ stage = "loop"
  /\ pulls < MaxPulls
  /\ pulls' = pulls + 1
  /\ UNCHANGED <<data, principal_components, by_n, L0, written>>
  /\ RunToYield(L, m)

\* next() on a generator suspended at the last yield: the body returns
NextFinish ==
  /\ stage = "final"
  /\ pulls < MaxPulls
  /\ pulls' = pulls + 1
  /\ stage' = "done"
  /\ UNCHANGED <<data, principal_components, by_n, L, L0, m, tmp, out, err, dots, written>>

\* next() on a finished generator (returned or raised): StopIteration
NextExhausted ==
  /\ stage \in {"done", "failed"}
  /\ pulls < MaxPulls
  /\ pulls' = pulls + 1
  /\ UNCHANGED <<data, principal_components, by_n, stage, L, L0, m, tmp, out, err, dots, written>>

Next ==
  \/ Invoke
  \/ NextStart
  \/ NextResume
  \/ NextFinish
  \/ NextExhausted

Spec == Init /\ [][Next]_vars

\* The consumer stores a value into one entry of an array it received from an
\* earlier pull.  The store goes through the reference: to the accumulator
\* object when the array came from yield L,iteration, to the temporary when
\* it came from the last yield.  One store per session is modelled.
ConsumerWrite ==
  /\ out # <<>>
  /\ ~written
  /\ written' = TRUE
  /\ \E j \in 1..Len(out), v \in Entries :
       LET r == out[j].ref
           A == Deref(r)
       IN \E i \in 1..A.rows, k \in 1..A.cols :
            LET B == [A EXCEPT !.e[i][k] = v]
            IN /\ B # A
               /\ IF r = "L"
                  THEN L' = B /\ UNCHANGED tmp
                  ELSE tmp' = B /\ UNCHANGED L
  /\ UNCHANGED <<data, principal_components, by_n, stage, L0, m, out, pulls, err, dots>>

NextW ==
  \/ Next
  \/ ConsumerWrite

\* the generator with a consumer that also writes into what it received
SpecW == Init /\ [][NextW]_vars

\* ---- notions shared by the properties ----
NumCols == data.cols

Valid == principal_components.rows = data.cols /\ by_n >= 1

Ceil(a, b) == (a + b - 1) \div b

\* data[:, :k] . principal_components[:k, :]
Prefix(k) == Dot(ColSlice(data, 0, k), RowSlice(principal_components, 0, k))

\* outer product of column j of data and row j of principal_components (j from 1)
RankOne(j) == Dot(ColSlice(data, j - 1, j), RowSlice(principal_components, j - 1, j))

\* C1: for by_n >= 1 and matching shapes, the j-th yielded element before the
\* last one, as observed when it was yielded, equals
\* data[:, :j*by_n] . principal_components[:j*by_n, :].
C1_IntermediateIsPrefixProduct ==
  Valid =>
    \A j \in 1..Len(out) :
      j < Ceil(NumCols, by_n) => out[j].val = Prefix(j * by_n)

\* C2: for by_n >= 1 and matching shapes, the last yielded element equals the
\* full product data . principal_components.
C2_LastIsFullProduct ==
  (Valid /\ Len(out) = Ceil(NumCols, by_n)) =>
    out[Len(out)].val = Dot(data, principal_components)

\* C3: for by_n >= 1 and matching shapes, the consumer receives exactly
\* ceil(c / by_n) elements and then exhaustion: after p pulls it holds
\* min(p, ceil(c/by_n)) elements, the generator is finished exactly when more
\* than ceil(c/by_n) pulls were made, and the single last step folds in the
\* tail of c mod by_n columns (by_n columns when by_n divides c).
C3_YieldCount ==
  Valid =>
    LET K == Ceil(NumCols, by_n) IN
    /\ Len(out) = Min2(pulls, K)
    /\ stage = "done" <=> pulls > K
    /\ stage # "failed"
    /\ \A j \in 1..Len(out) : out[j].ref = "tmp" <=> j = K
    /\ stage = "final" =>
         ColSlice(data, m, NumCols).cols =
           (IF NumCols % by_n = 0 THEN by_n ELSE NumCols % by_n)

C3_Witness ==
  /\ Valid
  /\ stage = "done"
  /\ by_n = 2
  /\ NumCols = 3
  /\ Len(out) = 2
  /\ pulls = 4

\* C4: the integer yielded with each element is the number of columns folded
\* into that element, and the integer yielded with the last element is c.
C4_IndexIsColumnsConsumed ==
  Valid =>
    \A j \in 1..Len(out) : out[j].idx = Min2(j * by_n, NumCols)

\* C5: every yielded matrix still holds the value it had when it was yielded,
\* and no two yielded matrices are the same object.
C5_YieldedAreSnapshots ==
  Valid =>
  /\ \A j \in 1..Len(out) : Deref(out[j].ref) = out[j].val
  /\ \A i, j \in 1..Len(out) : i # j => out[i].ref # out[j].ref

\* C6 (as stated): when C differs from c the session fails with the
\* shape-mismatch error and the consumer never receives a snapshot.
C6_MismatchRaisesShapeError ==
  principal_components.rows # data.cols =>
    /\ out = <<>>
    /\ pulls >= 1 => (stage = "failed" /\ err = "AssertionError")

\* C6 (amended): when C differs from c the consumer never receives a snapshot
\* and the first pull fails: with the shape-mismatch AssertionError when
\* by_n # 0, with ZeroDivisionError when by_n = 0.
C6_MismatchFails ==
  principal_components.rows # data.cols =>
    /\ out = <<>>
    /\ pulls >= 1 =>
         /\ stage = "failed"
         /\ err = (IF by_n = 0 THEN "ZeroDivisionError" ELSE "AssertionError")

C6_Witness ==
  /\ principal_components.rows # data.cols
  /\ by_n # 0
  /\ pulls >= 2
  /\ stage = "failed"
  /\ err = "AssertionError"
  /\ out = <<>>

\* C7: for every by_n < 1 the session fails: no snapshot is ever yielded.
C7_NonPositiveBlockFails ==
  by_n < 1 =>
    /\ out = <<>>
    /\ pulls >= 1 => stage = "failed"

\* C8: with mismatching shapes or by_n < 1 the error is raised by the
\* invocation itself: once data_reconstruction has been called the session
\* has failed, before any pull.
C8_EagerDetection ==
  (~Valid /\ stage # "unstarted") => (stage = "failed" /\ pulls = 0)

\* C9: with by_n = 1 and matching shapes exactly c elements are yielded, and
\* each element, as observed when yielded, is its predecessor, as observed
\* when yielded, plus the outer product of column j of data and row j of
\* principal_components.
C9_RankOneSteps ==
  (Valid /\ by_n = 1) =>
    /\ Len(out) <= NumCols
    /\ stage = "done" => Len(out) = NumCols
    /\ \A j \in 2..Len(out) : out[j].val = MatAdd(out[j - 1].val, RankOne(j))

C9_Witness ==
  /\ Valid
  /\ by_n = 1
  /\ NumCols = 3
  /\ stage = "done"
  /\ Len(out) = 3
  /\ \A j \in 1..3 : RankOne(j) # Zeros(data.rows, principal_components.cols)

\* C10: the accumulator L, as allocated at the start of a session before the
\* first block is added, is all zeros.
C10_AccumulatorStartsZero ==
  L0 # NoArray => L0 = Zeros(data.rows, principal_components.cols)

\* C11: if the consumer writes into a matrix it received from an earlier pull
\* and pulls again, every yielded element is the same as without the write:
\* the j-th element is the accumulator as allocated plus the product of the
\* first min(j*by_n, c) columns of data with the matching rows.
C11_WritesDoNotReachGenerator ==
  Valid =>
    \A j \in 1..Len(out) :
      out[j].val = MatAdd(L0, Prefix(Min2(j * by_n, NumCols)))

\* C12: production is pull-driven: in every state the number of blocks that
\* have been multiplied and folded in equals the number of elements the
\* consumer has received, nothing is allocated or computed before the first
\* pull, and while the generator is suspended in its loop the offset m counts
\* exactly the columns of the elements received.
C12_LazyProduction ==
  /\ dots = Len(out)
  /\ Len(out) <= pulls
  /\ pulls = 0 => (L = NoArray /\ L0 = NoArray /\ tmp = NoArray /\ m = 0)
  /\ (Valid /\ stage = "loop") => m = Len(out) * by_n

C12_Witness ==
  /\ Valid
  /\ by_n = 1
  /\ NumCols = 3
  /\ stage = "loop"
  /\ pulls = 1
  /\ dots = 1
  /\ m = 1

C14_FrameOfSteps ==
  [][/\ data' = data
     /\ principal_components' = principal_components
     /\ by_n' = by_n
     /\ (stage = "unstarted") => (L' = L /\ m' = m /\ tmp' = tmp /\ out' = out)
     /\ (stage = "loop" /\ stage' = "final") => (L' = L /\ m' = m)
     /\ (stage = "created" /\ stage' = "final") => (L' = L0' /\ m' = 0)
     /\ (stage \in {"final", "done", "failed"} \/ stage' = "failed") =>
          (L' = L /\ m' = m /\ tmp' = tmp /\ out' = out)]_vars

C14_Witness ==
  /\ Valid
  /\ stage = "final"
  /\ Len(out) >= 2
  /\ m < NumCols
  /\ L = out[Len(out) - 1].val
  /\ tmp # L

====
